---- MODULE Spec2Model ----
(***************************************************************************)
(* Model of sandbox.py: the CES production relations, the Solow equation   *)
(* of motion and its Jacobian, the initial condition, the Gaussian         *)
(* log-likelihood and the objective handed to the minimizers.              *)
(*                                                                         *)
(* Reals are modelled as exact rationals <<num, den>> in lowest terms with *)
(* den > 0.  The model evaluates the formulas only at points where every   *)
(* power is itself rational, so each value is the value the Python         *)
(* expression denotes, free of rounding.                                   *)
(***************************************************************************)
EXTENDS Integers, Sequences, FiniteSets, TLC

VARIABLES calc, pc, mode, params, ctry, start, end, labor_share, time_pts,
          k0, traj, rhs, jac, result, outcome, cons

vars == <<calc, pc, mode, params, ctry, start, end, labor_share, time_pts,
          k0, traj, rhs, jac, result, outcome, cons>>

pipeVars == <<pc, mode, params, ctry, start, end, labor_share, time_pts,
              k0, traj, rhs, jac, result, outcome, cons>>

----------------------------------------------------------------------------
(* Bounds of the model.                                                    *)

\* panel years are 1..MaxYear
MaxYear == 3
\* capital values are squares of fractions a/b with a, b in 1..MaxBase
MaxBase == 2
\* powers x ** (p/q) of x # 1 are taken for |p| <= MaxPow
MaxPow == 3

----------------------------------------------------------------------------
(* Exact rational arithmetic standing for Python's float operators.        *)

RECURSIVE Gcd(_, _)
Gcd(a, b) == IF b = 0 THEN a ELSE Gcd(b, a % b)

IAbs(a) == IF a < 0 THEN -a ELSE a

Rat(n, d) ==
    LET g == Gcd(IAbs(n), IAbs(d))
        s == IF d < 0 THEN -1 ELSE 1
    IN  <<s * (n \div g), s * (d \div g)>>

Zero == <<0, 1>>
One == <<1, 1>>

RAdd(x, y) ==
    LET g == Gcd(x[2], y[2])
    IN  Rat(x[1] * (y[2] \div g) + y[1] * (x[2] \div g), (x[2] \div g) * y[2])

RNeg(x) == <<-x[1], x[2]>>

RSub(x, y) == RAdd(x, RNeg(y))

RMul(x, y) ==
    LET a == Rat(x[1], y[2])
        b == Rat(y[1], x[2])
    IN  <<a[1] * b[1], a[2] * b[2]>>

RInv(x) == Rat(x[2], x[1])

RDiv(x, y) == RMul(x, RInv(y))

RLt(x, y) == x[1] * y[2] < y[1] * x[2]

RLe(x, y) == x[1] * y[2] <= y[1] * x[2]

RAbs(x) == <<IAbs(x[1]), x[2]>>

\* min(r^q, n + 1), computed without leaving the machine integers
RECURSIVE SatPow(_, _, _, _)
SatPow(r, q, n, acc) ==
    IF q = 0 \/ r = 1 THEN acc
    ELSE IF acc > n \div r THEN n + 1
    ELSE SatPow(r, q - 1, n, acc * r)

HasRoot(n, q) == \E r \in 1..n : SatPow(r, q, n, 1) = n

IRoot(n, q) == CHOOSE r \in 1..n : SatPow(r, q, n, 1) = n

RECURSIVE RIPow(_, _)
RIPow(x, p) ==
    IF p = 0 THEN One
    ELSE IF p < 0 THEN RInv(RIPow(x, -p))
    ELSE RMul(x, RIPow(x, p - 1))

\* x ** e is a rational the model can hold: x = 1, or the exponent is small
\* and x has an exact root of order den(e)
PowExact(x, e) ==
    \/ x = One
    \/ /\ IAbs(e[1]) <= MaxPow
       /\ e[2] = 1 \/ (HasRoot(x[1], e[2]) /\ HasRoot(x[2], e[2]))

\* x ** e for x > 0
Pow(x, e) ==
    IF x = One THEN One
    ELSE IF e[2] = 1 THEN RIPow(x, e[1])
    ELSE RIPow(<<IRoot(x[1], e[2]), IRoot(x[2], e[2])>>, e[1])

----------------------------------------------------------------------------
(* sandbox.py, lines 11-82: the CES production core.                       *)

EPS == <<1, 1000000>>

\* slip: the outer exponent of the general branch is 1 / rho
mpk_outer_exponent_slip(capital, rho, omega) ==
    IF RLt(RAbs(rho), EPS)
    THEN RMul(omega, Pow(capital, RSub(omega, One)))
    ELSE RMul(RMul(omega, Pow(capital, RSub(rho, One))),
              Pow(RAdd(RMul(omega, Pow(capital, rho)), RSub(One, omega)),
                  RDiv(One, rho)))

_ces_marginal_product_capital(capital, rho, omega) ==
    IF RLt(RAbs(rho), EPS)
    THEN RMul(omega, Pow(capital, RSub(omega, One)))
    ELSE RMul(RMul(omega, Pow(capital, RSub(rho, One))),
              Pow(RAdd(RMul(omega, Pow(capital, rho)), RSub(One, omega)),
                  RDiv(RSub(One, rho), rho)))

_ces_output(capital, rho, omega) ==
    IF RLt(RAbs(rho), EPS)
    THEN Pow(capital, omega)
    ELSE Pow(RAdd(RMul(omega, Pow(capital, rho)), RSub(One, omega)),
             RDiv(One, rho))

solow_jacobian(capital, time, n, g, s, delta, rho, omega) ==
    LET marginal_benefit == RMul(s, _ces_marginal_product_capital(capital, rho, omega))
        marginal_cost == RAdd(RAdd(n, g), delta)
    IN  RSub(marginal_benefit, marginal_cost)

\* slip: break-even investment leaves out the rate bound to g
solow_model_without_g(capital, time, n, g, s, delta, rho, omega) ==
    LET actual_investment == RMul(s, _ces_output(capital, rho, omega))
        break_even_investment == RMul(RAdd(n, delta), capital)
    IN  RSub(actual_investment, break_even_investment)

solow_model(capital, time, n, g, s, delta, rho, omega) ==
    LET actual_investment == RMul(s, _ces_output(capital, rho, omega))
        break_even_investment == RMul(RAdd(RAdd(n, g), delta), capital)
    IN  RSub(actual_investment, break_even_investment)

_ces_technology(capital, labor, output, rho, omega) ==
    LET output_per_worker == RDiv(output, labor)
        capital_labor_ratio == RDiv(capital, labor)
    IN  IF RLt(RAbs(rho), EPS)
        THEN Pow(RDiv(output_per_worker, Pow(capital_labor_ratio, omega)),
                 RDiv(One, RSub(One, omega)))
        ELSE Pow(RAdd(RMul(RDiv(One, RSub(One, omega)), Pow(output_per_worker, rho)),
                      RMul(RDiv(omega, RSub(One, omega)), Pow(capital_labor_ratio, rho))),
                 RDiv(One, rho))

\* slip: the denominator of the general branch loses its (1 - omega) term
labor_share_short_denominator(capital, rho, omega) ==
    IF RLe(RAbs(rho), EPS)
    THEN omega
    ELSE RDiv(RSub(One, omega), RMul(omega, Pow(capital, rho)))

_predicted_labor_share(capital, rho, omega) ==
    IF RLe(RAbs(rho), EPS)
    THEN omega
    ELSE RDiv(RSub(One, omega),
              RAdd(RMul(omega, Pow(capital, rho)), RSub(One, omega)))

----------------------------------------------------------------------------
(* Points at which the formulas above are evaluated.                       *)

\* every power taken by _ces_output, _ces_marginal_product_capital and
\* _predicted_labor_share at (capital, rho, omega) is rational
ProductionExact(capital, rho, omega) ==
    IF RLt(RAbs(rho), EPS)
    THEN PowExact(capital, omega)
    ELSE /\ PowExact(capital, rho)
         /\ PowExact(RAdd(RMul(omega, Pow(capital, rho)), RSub(One, omega)),
                     RDiv(One, rho))

\* every power taken by _ces_technology is rational
TechnologyExact(capital, labor, output, rho, omega) ==
    IF RLt(RAbs(rho), EPS)
    THEN /\ PowExact(RDiv(capital, labor), omega)
         /\ PowExact(RDiv(RDiv(output, labor), Pow(RDiv(capital, labor), omega)),
                     RDiv(One, RSub(One, omega)))
    ELSE /\ PowExact(RDiv(output, labor), rho)
         /\ PowExact(RDiv(capital, labor), rho)
         /\ PowExact(RAdd(RMul(RDiv(One, RSub(One, omega)),
                               Pow(RDiv(output, labor), rho)),
                          RMul(RDiv(omega, RSub(One, omega)),
                               Pow(RDiv(capital, labor), rho))),
                     RDiv(One, rho))

\* capital per effective worker: squares of a/b
KVals == {Rat(a * a, b * b) : a \in 1..MaxBase, b \in 1..MaxBase}

\* rho on both sides of the Cobb-Douglas gate, and on the gate itself
RhoVals == {Zero, <<1, 2000000>>, <<-1, 2000000>>, EPS, One, <<-1, 1>>, <<1, 2>>}

OmegaVals == {<<1, 2>>, <<1, 3>>}

\* levels of capital stock, employment and output
LevelVals == {One, <<4, 1>>}

\* growth, savings and depreciation rates: (n, g, s, delta)
RateVals == {<<<<1, 50>>, <<1, 25>>, <<1, 2>>, <<1, 20>>>>,
             <<<<-1, 10>>, <<1, 50>>, <<-1, 2>>, Zero>>}

NoCalc ==
    [op |-> "none", k |-> Zero, rho |-> Zero, omega |-> Zero,
     capital |-> Zero, labor |-> Zero, output_level |-> Zero,
     rates |-> <<Zero, Zero, Zero, Zero>>,
     output |-> Zero, mpk |-> Zero, share |-> Zero,
     tech |-> Zero, keff |-> Zero, rhs |-> Zero, jac |-> Zero]

PointInputs ==
    {[NoCalc EXCEPT !.op = "point", !.k = k, !.rho = r, !.omega = w] :
        k \in KVals, r \in RhoVals, w \in OmegaVals}

LevelInputs ==
    {[NoCalc EXCEPT !.op = "levels", !.rho = r, !.omega = w,
                    !.capital = kk, !.labor = ll, !.output_level = yy] :
        r \in RhoVals, w \in OmegaVals,
        kk \in LevelVals, ll \in LevelVals, yy \in LevelVals}

MotionInputs ==
    {[NoCalc EXCEPT !.op = "motion", !.k = k, !.rho = r, !.omega = w, !.rates = q] :
        k \in KVals, r \in RhoVals, w \in OmegaVals, q \in RateVals}

\* the three per-effective-worker functions applied to one point
EvalProduction ==
    /\ calc.op = "point"
    /\ ProductionExact(calc.k, calc.rho, calc.omega)
    /\ calc' = [calc EXCEPT
                  !.op = "production",
                  !.output = _ces_output(calc.k, calc.rho, calc.omega),
                  !.mpk = _ces_marginal_product_capital(calc.k, calc.rho, calc.omega),
                  !.share = _predicted_labor_share(calc.k, calc.rho, calc.omega)]
    /\ UNCHANGED pipeVars

\* technology as a residual, and the capital per effective worker it implies
\* (the arithmetic of _initial_condition, line 72)
EvalTechnology ==
    /\ calc.op = "levels"
    /\ TechnologyExact(calc.capital, calc.labor, calc.output_level, calc.rho, calc.omega)
    /\ LET a == _ces_technology(calc.capital, calc.labor, calc.output_level,
                                calc.rho, calc.omega)
       IN  calc' = [calc EXCEPT
                      !.op = "technology",
                      !.tech = a,
                      !.keff = RDiv(calc.capital, RMul(a, calc.labor))]
    /\ UNCHANGED pipeVars

\* the equation of motion and its Jacobian applied to one point
EvalMotion ==
    /\ calc.op = "motion"
    /\ ProductionExact(calc.k, calc.rho, calc.omega)
    /\ calc' = [calc EXCEPT
                  !.op = "solow",
                  !.rhs = solow_model(calc.k, 0, calc.rates[1], calc.rates[2],
                                      calc.rates[3], calc.rates[4],
                                      calc.rho, calc.omega),
                  !.jac = solow_jacobian(calc.k, 0, calc.rates[1], calc.rates[2],
                                         calc.rates[3], calc.rates[4],
                                         calc.rho, calc.omega)]
    /\ UNCHANGED pipeVars

----------------------------------------------------------------------------
(* The panel read through pwt_data.major_xs(ctry)[column][label].          *)

Countries == {"KOR", "GAP"}

\* years for which the panel holds an observation of the country
PanelYears(c) == IF c = "KOR" THEN 1..MaxYear ELSE 2..MaxYear

rkna(c, y) == IF c = "KOR" THEN <<4, 1>> ELSE One

emp(c, y) == One

rgdpna(c, y) == IF y % 2 = 1 THEN <<4, 1>> ELSE One

labsh(c, y) == <<y, y + 1>>

RECURSIVE SortedSeq(_)
SortedSeq(S) ==
    IF S = {} THEN <<>>
    ELSE LET m == CHOOSE x \in S : \A y \in S : x <= y
         IN  <<m>> \o SortedSeq(S \ {m})

\* index of series[start:end]: label slicing keeps both end points
SliceYears(c, st, en) == SortedSeq({y \in PanelYears(c) : st <= y /\ y <= en})

----------------------------------------------------------------------------
(* sandbox.py, lines 64-123: initial condition, likelihood, objective.     *)

KeyError == [ok |-> FALSE, val |-> Zero]

\* slip: a missing observation is replaced by a default capital of 1
initial_condition_defaulted(c, st, rho, omega) ==
    IF st \notin PanelYears(c)
    THEN [ok |-> TRUE, val |-> One]
    ELSE LET initial_technology == _ces_technology(rkna(c, st), emp(c, st),
                                                   rgdpna(c, st), rho, omega)
         IN  [ok |-> TRUE,
              val |-> RDiv(rkna(c, st), RMul(initial_technology, emp(c, st)))]

_initial_condition(c, st, rho, omega) ==
    IF st \notin PanelYears(c)
    THEN KeyError
    ELSE LET initial_capital == rkna(c, st)
             initial_labor == emp(c, st)
             initial_output == rgdpna(c, st)
             initial_technology == _ces_technology(initial_capital, initial_labor,
                                                   initial_output, rho, omega)
         IN  [ok |-> TRUE,
              val |-> RDiv(initial_capital, RMul(initial_technology, initial_labor))]

_residual(capital, share, rho, omega) ==
    LET actual_labor_share == share
        predicted_labor_share == _predicted_labor_share(capital, rho, omega)
    IN  RSub(actual_labor_share, predicted_labor_share)

\* A float result: "num" stands for q + c * ln(sigma * sqrt(2 pi)), "pdf" for
\* exp(q) / (sigma * sqrt(2 pi)), "nan" for NaN.
NaN == [kind |-> "nan", q |-> Zero, c |-> 0]

Num(q, c) == [kind |-> "num", q |-> q, c |-> c]

\* stats.norm(0, sigma).pdf(x): a scale that is not positive yields nan
norm_pdf(x, sigma) ==
    IF RLe(sigma, Zero)
    THEN NaN
    ELSE [kind |-> "pdf",
          q |-> RNeg(RDiv(RMul(x, x), RMul(<<2, 1>>, RMul(sigma, sigma)))),
          c |-> 1]

np_log(v) == IF v.kind = "nan" THEN NaN ELSE Num(v.q, -v.c)

RECURSIVE np_sum(_)
np_sum(a) ==
    IF a = <<>> THEN Num(Zero, 0)
    ELSE LET h == Head(a)
             t == np_sum(Tail(a))
         IN  IF h.kind = "nan" \/ t.kind = "nan" THEN NaN
             ELSE Num(RAdd(h.q, t.q), h.c + t.c)

Negate(v) == IF v.kind = "nan" THEN NaN ELSE Num(RNeg(v.q), -v.c)

\* element-wise over the trajectory and the labor share series
_individual_ll(capital, share, rho, sigma, omega) ==
    [i \in 1..Len(capital) |->
        np_log(norm_pdf(_residual(capital[i], share[i], rho, omega), sigma))]

\* slip: the total is returned without the sign change
total_ll_not_negated(trajectory, share, rho, sigma, omega) ==
    np_sum(_individual_ll(trajectory, share, rho, sigma, omega))

\* lines 120-123
total_negative_ll(trajectory, share, rho, sigma, omega) ==
    Negate(np_sum(_individual_ll(trajectory, share, rho, sigma, omega)))

\* line 107: g, n, s, delta, rho, sigma, omega = params
Unpack(p) ==
    [g |-> p[1], n |-> p[2], s |-> p[3], delta |-> p[4],
     rho |-> p[5], sigma |-> p[6], omega |-> p[7]]

\* line 116: args=(g, n, s, delta, rho, omega)
OdeArgs(p) ==
    LET u == Unpack(p)
    IN  <<u.g, u.n, u.s, u.delta, u.rho, u.omega>>

\* odeint calls func(y, t, *args) and Dfun(y, t, *args)
CallFunc(y, t, args) ==
    solow_model(y, t, args[1], args[2], args[3], args[4], args[5], args[6])

CallDfun(y, t, args) ==
    solow_jacobian(y, t, args[1], args[2], args[3], args[4], args[5], args[6])

\* slip: the third term indexes s instead of delta
ConsFun_reads_s(p) == RAdd(RAdd(p[1], p[2]), p[3])

\* line 147: lambda params: params[0] + params[1] + params[3]
ConsFun(p) == RAdd(RAdd(p[1], p[2]), p[4])

----------------------------------------------------------------------------
(* Parameter vectors (g, n, s, delta, rho, sigma, omega) tried by a caller. *)

GVals == {<<1, 50>>, <<-1, 10>>}
NVals == {<<1, 25>>}
SVals == {<<1, 2>>}
DeltaVals == {<<1, 20>>}
SigmaVals == {<<1, 2>>, Zero, <<-1, 2>>}
PipeRhoVals == {Zero, <<1, 2000000>>, One, <<-1, 1>>, <<1, 2>>}

\* samples the integrator may return after the first
TrajVals == {<<1, 4>>, One, <<4, 1>>}

\* every power met while evaluating the objective at p is rational
Evaluable(p) ==
    /\ \A k \in TrajVals : ProductionExact(k, Unpack(p).rho, Unpack(p).omega)
    /\ \A c \in Countries : \A y \in PanelYears(c) :
          /\ TechnologyExact(rkna(c, y), emp(c, y), rgdpna(c, y),
                             Unpack(p).rho, Unpack(p).omega)
          /\ ProductionExact(_initial_condition(c, y, Unpack(p).rho,
                                                Unpack(p).omega).val,
                             Unpack(p).rho, Unpack(p).omega)

ParamVectors ==
    {p \in {<<g, n, s, d, r, sg, w>> :
               g \in GVals, n \in NVals, s \in SVals, d \in DeltaVals,
               r \in PipeRhoVals, sg \in SigmaVals, w \in OmegaVals} :
        Evaluable(p)}

NoParams == <<Zero, Zero, Zero, Zero, Zero, Zero, Zero>>

NoCons == [val |-> Zero, feasible |-> FALSE]

----------------------------------------------------------------------------
(* objective(params, ctry, start, end), the constraint and the simulation. *)

\* lines 107-114: unpack, slice the labor share, resolve k0
ObjectiveEnter ==
    /\ pc = "idle"
    /\ \E p \in ParamVectors, c \in Countries, st \in 1..MaxYear, en \in 1..MaxYear :
          /\ st <= en
          /\ params' = p
          /\ ctry' = c
          /\ start' = st
          /\ end' = en
          /\ mode' = "objective"
          /\ labor_share' = [i \in 1..Len(SliceYears(c, st, en)) |->
                                labsh(c, SliceYears(c, st, en)[i])]
          /\ LET ic == _initial_condition(c, st, Unpack(p).rho, Unpack(p).omega)
             IN  IF ic.ok
                 THEN /\ k0' = ic.val
                      /\ time_pts' = SliceYears(c, st, en)
                      /\ pc' = "odeint"
                      /\ outcome' = "running"
                 ELSE /\ k0' = Zero
                      /\ time_pts' = <<>>
                      /\ pc' = "raised"
                      /\ outcome' = "KeyError"
    /\ UNCHANGED <<calc, traj, rhs, jac, result, cons>>

\* lines 160-163: k0 at start, time grid over the whole labsh index
SimulateEnter ==
    /\ pc = "idle"
    /\ \E p \in ParamVectors, c \in Countries, st \in 1..MaxYear, en \in 1..MaxYear :
          /\ st <= en
          /\ params' = p
          /\ ctry' = c
          /\ start' = st
          /\ end' = en
          /\ mode' = "simulate"
          /\ LET ic == _initial_condition(c, st, Unpack(p).rho, Unpack(p).omega)
             IN  IF ic.ok
                 THEN /\ k0' = ic.val
                      /\ time_pts' = SortedSeq(PanelYears(c))
                      /\ pc' = "odeint"
                      /\ outcome' = "running"
                 ELSE /\ k0' = Zero
                      /\ time_pts' = <<>>
                      /\ pc' = "raised"
                      /\ outcome' = "KeyError"
    /\ UNCHANGED <<calc, labor_share, traj, rhs, jac, result, cons>>

\* odeint: the first sample is y0, at t[0]
OdeintStart ==
    /\ pc = "odeint"
    /\ traj = <<>>
    /\ traj' = <<k0>>
    /\ rhs' = CallFunc(k0, time_pts[1], OdeArgs(params))
    /\ jac' = CallDfun(k0, time_pts[1], OdeArgs(params))
    /\ UNCHANGED <<calc, pc, mode, params, ctry, start, end, labor_share,
                   time_pts, k0, result, outcome, cons>>

\* odeint: one more sample, for the next point of the grid
OdeintAdvance ==
    /\ pc = "odeint"
    /\ 0 < Len(traj)
    /\ Len(traj) < Len(time_pts)
    /\ \E k \in TrajVals :
          /\ traj' = Append(traj, k)
          /\ rhs' = CallFunc(k, time_pts[Len(traj) + 1], OdeArgs(params))
          /\ jac' = CallDfun(k, time_pts[Len(traj) + 1], OdeArgs(params))
    /\ UNCHANGED <<calc, pc, mode, params, ctry, start, end, labor_share,
                   time_pts, k0, result, outcome, cons>>

\* lines 120-123
ObjectiveReturn ==
    /\ pc = "odeint"
    /\ mode = "objective"
    /\ Len(traj) = Len(time_pts)
    /\ result' = total_negative_ll(traj, labor_share, Unpack(params).rho,
                                  Unpack(params).sigma, Unpack(params).omega)
    /\ pc' = "returned"
    /\ outcome' = "value"
    /\ UNCHANGED <<calc, mode, params, ctry, start, end, labor_share,
                   time_pts, k0, traj, rhs, jac, cons>>

\* lines 161-167: result3 is the array odeint returns
SimulateDone ==
    /\ pc = "odeint"
    /\ mode = "simulate"
    /\ Len(traj) = Len(time_pts)
    /\ pc' = "simulated"
    /\ outcome' = "value"
    /\ UNCHANGED <<calc, mode, params, ctry, start, end, labor_share,
                   time_pts, k0, traj, rhs, jac, result, cons>>

\* the minimizer evaluates the inequality constraint on a vector
EvalConstraint ==
    /\ pc = "idle"
    /\ \E p \in ParamVectors :
          /\ params' = p
          /\ cons' = [val |-> ConsFun(p), feasible |-> RLe(Zero, ConsFun(p))]
    /\ pc' = "constraint"
    /\ mode' = "constraint"
    /\ UNCHANGED <<calc, ctry, start, end, labor_share, time_pts, k0, traj,
                   rhs, jac, result, outcome>>

----------------------------------------------------------------------------
(* Specifications.                                                         *)

PipeIdle ==
    /\ pc = "idle"
    /\ mode = "none"
    /\ params = NoParams
    /\ ctry = "none"
    /\ start = 0
    /\ end = 0
    /\ labor_share = <<>>
    /\ time_pts = <<>>
    /\ k0 = Zero
    /\ traj = <<>>
    /\ rhs = Zero
    /\ jac = Zero
    /\ result = [kind |-> "none", q |-> Zero, c |-> 0]
    /\ outcome = "none"
    /\ cons = NoCons

Init ==
    /\ calc = NoCalc
    /\ PipeIdle

Next ==
    \/ ObjectiveEnter
    \/ SimulateEnter
    \/ OdeintStart
    \/ OdeintAdvance
    \/ ObjectiveReturn
    \/ SimulateDone
    \/ EvalConstraint

Spec == Init /\ [][Next]_vars

InitCES ==
    /\ calc \in PointInputs \cup LevelInputs \cup MotionInputs
    /\ PipeIdle

NextCES ==
    \/ EvalProduction
    \/ EvalTechnology
    \/ EvalMotion

SpecCES == InitCES /\ [][NextCES]_vars

----------------------------------------------------------------------------
(* Properties of the CES core, checked under SpecCES.                      *)

Between(x, a, b) == (RLe(a, x) /\ RLe(x, b)) \/ (RLe(b, x) /\ RLe(x, a))

Slope(fa, fb, a, b) == RDiv(RSub(fb, fa), RSub(b, a))

\* C1: the technology backed out of (K, L, Y), fed back through the
\* production function at k = K / (A L), gives A * L * f(k) = Y.
C1_RoundTrip ==
    (calc.op = "technology" /\ ProductionExact(calc.keff, calc.rho, calc.omega))
        => RMul(RMul(calc.tech, calc.labor),
                _ces_output(calc.keff, calc.rho, calc.omega)) = calc.output_level

\* C2: no jump at the Cobb-Douglas gate.  At k = 1 neither general-branch
\* formula depends on rho, so output and predicted labor share are the same
\* for every rho on either side of the gate.
C2_Continuity ==
    (calc.op = "production" /\ calc.k = One)
        => \A r \in RhoVals :
              /\ _ces_output(One, r, calc.omega) = calc.output
              /\ _predicted_labor_share(One, r, calc.omega) = calc.share

\* C5: the marginal product of capital is the derivative of output, and the
\* Jacobian the derivative of the equation of motion.  Both functions have a
\* monotone derivative in k, so the derivative at k lies between the secant
\* slopes on either side of k, and every secant slope lies between the
\* derivatives at its two ends.
C5_Derivative ==
    /\ calc.op = "production" =>
          \A a \in KVals : \A b \in KVals :
             (/\ ProductionExact(a, calc.rho, calc.omega)
              /\ ProductionExact(b, calc.rho, calc.omega)
              /\ a # calc.k /\ b # calc.k)
             => LET f(x) == _ces_output(x, calc.rho, calc.omega)
                    d(x) == _ces_marginal_product_capital(x, calc.rho, calc.omega)
                IN  /\ Between(Slope(calc.output, f(b), calc.k, b), calc.mpk, d(b))
                    /\ (RLt(a, calc.k) /\ RLt(calc.k, b))
                          => Between(calc.mpk,
                                     Slope(f(a), calc.output, a, calc.k),
                                     Slope(calc.output, f(b), calc.k, b))
    /\ calc.op = "solow" =>
          \A a \in KVals : \A b \in KVals :
             (/\ ProductionExact(a, calc.rho, calc.omega)
              /\ ProductionExact(b, calc.rho, calc.omega)
              /\ a # calc.k /\ b # calc.k)
             => LET q == calc.rates
                    f(x) == solow_model(x, 0, q[1], q[2], q[3], q[4],
                                        calc.rho, calc.omega)
                    d(x) == solow_jacobian(x, 0, q[1], q[2], q[3], q[4],
                                           calc.rho, calc.omega)
                IN  /\ Between(Slope(calc.rhs, f(b), calc.k, b), calc.jac, d(b))
                    /\ (RLt(a, calc.k) /\ RLt(calc.k, b))
                          => Between(calc.jac,
                                     Slope(f(a), calc.rhs, a, calc.k),
                                     Slope(calc.rhs, f(b), calc.k, b))

C5_Witness ==
    /\ calc.op = "production"
    /\ calc.rho = <<1, 2>>
    /\ calc.k = One
    /\ \E a \in KVals : \E b \in KVals : RLt(a, calc.k) /\ RLt(calc.k, b)

\* C8: the predicted labor share lies strictly between 0 and 1.
C8_ShareInUnitInterval ==
    calc.op = "production" => (RLt(Zero, calc.share) /\ RLt(calc.share, One))

C8_Witness ==
    /\ calc.op = "production"
    /\ ~RLe(RAbs(calc.rho), EPS)
    /\ calc.k # One

----------------------------------------------------------------------------
(* Properties of objective, the constraint and the simulation, checked     *)
(* under Spec.                                                             *)

\* C3: with sigma = 0 or sigma < 0 the objective hands no value back.
C3_SigmaRejected ==
    pc = "returned" => RLt(Zero, Unpack(params).sigma)

\* C4: the trajectory of objective and of the standalone simulation starts
\* at the resolved initial condition and has one value per observation year
\* from start to end.
C4_Trajectory ==
    pc \in {"returned", "simulated"} =>
        /\ traj[1] = _initial_condition(ctry, start, Unpack(params).rho,
                                        Unpack(params).omega).val
        /\ Len(traj) = Cardinality({y \in PanelYears(ctry) : start <= y /\ y <= end})

\* C6: when the panel has no observation of the country at start, objective
\* ends in the lookup failure raised by _initial_condition; no trajectory is
\* computed and no value is returned.
C6_MissingDataFails ==
    (mode = "objective" /\ start \notin PanelYears(ctry)) =>
        /\ pc = "raised"
        /\ outcome = "KeyError"
        /\ traj = <<>>
        /\ result.kind = "none"

C6_Witness ==
    /\ mode = "objective"
    /\ pc = "raised"
    /\ labor_share = <<>>

RECURSIVE C7_SumSquares(_)
C7_SumSquares(i) ==
    IF i = 0 THEN Zero
    ELSE LET u == Unpack(params)
             year == SliceYears(ctry, start, end)[i]
             r == RSub(labsh(ctry, year),
                       _predicted_labor_share(traj[i], u.rho, u.omega))
         IN  RAdd(C7_SumSquares(i - 1),
                  RDiv(RMul(r, r), RMul(<<2, 1>>, RMul(u.sigma, u.sigma))))

\* C7: the value returned is minus the sum over the periods of the log of
\* the zero-mean Gaussian density at that period's residual,
\*   sum_i r_i^2 / (2 sigma^2) + N * ln(sigma * sqrt(2 pi)),
\* with r_i the observed labor share of year i minus the share predicted
\* from the trajectory value of year i.
C7_NegativeLogLikelihood ==
    (pc = "returned" /\ RLt(Zero, Unpack(params).sigma)) =>
        LET N == Len(SliceYears(ctry, start, end))
        IN  /\ Len(traj) = N
            /\ result = Num(C7_SumSquares(N), N)

C7_Witness ==
    /\ pc = "returned"
    /\ RLt(Zero, Unpack(params).sigma)
    /\ ~RLe(RAbs(Unpack(params).rho), EPS)
    /\ Len(traj) >= 2
    /\ traj[1] # traj[2]

\* C9: the constraint evaluates to g + n + delta of the vector as objective
\* unpacks it, the vector is feasible exactly when that sum is >= 0, and
\* vectors that agree on g, n and delta get the same constraint value.
C9_Constraint ==
    pc = "constraint" =>
        LET u == Unpack(params)
        IN  /\ cons.val = RAdd(RAdd(u.g, u.n), u.delta)
            /\ cons.feasible <=> RLe(Zero, RAdd(RAdd(u.g, u.n), u.delta))
            /\ \A q \in ParamVectors :
                  (Unpack(q).g = u.g /\ Unpack(q).n = u.n /\ Unpack(q).delta = u.delta)
                      => ConsFun(q) = cons.val

C9_Witness ==
    /\ pc = "constraint"
    /\ ~cons.feasible

\* C10: the right-hand side and the Jacobian the integrator evaluates, with
\* g and n bound to each other's names, are those of
\*   dk/dt = s * output(k, rho, omega) - (n + g + delta) * k.
C10_SwappedBinding ==
    traj # <<>> =>
        LET u == Unpack(params)
            k == traj[Len(traj)]
        IN  /\ rhs = RSub(RMul(u.s, _ces_output(k, u.rho, u.omega)),
                          RMul(RAdd(RAdd(u.n, u.g), u.delta), k))
            /\ jac = RSub(RMul(u.s, _ces_marginal_product_capital(k, u.rho, u.omega)),
                          RAdd(RAdd(u.n, u.g), u.delta))

C10_Witness ==
    /\ pc = "odeint"
    /\ Len(traj) >= 2
    /\ Unpack(params).g # Unpack(params).n

====
